---- MODULE Spec2Model ----
(***************************************************************************)
(* Model of the timetable generator: services/timetable.py (TimeTable) and *)
(* services/timetable_generator.py (TimeTableGenerator).                   *)
(*                                                                         *)
(* Entities are referred to by their 1-based index in the loaded lists     *)
(* (names are unique per category, so index equality is the value equality *)
(* of models/*.py); 0 stands for Python's None.  A Pair is a record with   *)
(* the fields of models/pair.py and a grid is a sequence of Pairs.         *)
(* Fitness values are kept as exact fractions num/den.                     *)
(***************************************************************************)
EXTENDS Integers, Sequences, FiniteSets, TLC

None == 0

(* ------------------------------------------------------------------ *)
(* Problem instances (the content of timetable.json after from_json)   *)
(* ------------------------------------------------------------------ *)

\* One group with one session, one lecturer, three classrooms (one of them too
\* small for the group), one timeslot.
InstRooms ==
  [times      |-> << [day |-> "Monday", time |-> 1] >>,
   subjects   |-> << [name |-> "S1", hours |-> 1] >>,
   groups     |-> << [title |-> "G1", student_count |-> 20, subject_names |-> << "S1" >>] >>,
   lectors    |-> << [name |-> "L1", can_teach |-> << "S1" >>] >>,
   classrooms |-> << [name |-> "C1", max_student_count |-> 20],
                     [name |-> "C2", max_student_count |-> 40],
                     [name |-> "C3", max_student_count |-> 10] >>]

\* Two groups with one session each, one lecturer, one classroom, two timeslots.
InstTwo ==
  [times      |-> << [day |-> "Monday", time |-> 1], [day |-> "Monday", time |-> 2] >>,
   subjects   |-> << [name |-> "S1", hours |-> 1] >>,
   groups     |-> << [title |-> "G1", student_count |-> 20, subject_names |-> << "S1" >>],
                     [title |-> "G2", student_count |-> 20, subject_names |-> << "S1" >>] >>,
   lectors    |-> << [name |-> "L1", can_teach |-> << "S1" >>] >>,
   classrooms |-> << [name |-> "C1", max_student_count |-> 30] >>]

\* Scenario B of the specification: two groups need the same subject, one
\* timeslot, one qualified lecturer, one eligible classroom.
InstB ==
  [times      |-> << [day |-> "Monday", time |-> 1] >>,
   subjects   |-> << [name |-> "S1", hours |-> 1] >>,
   groups     |-> << [title |-> "G1", student_count |-> 20, subject_names |-> << "S1" >>],
                     [title |-> "G2", student_count |-> 20, subject_names |-> << "S1" >>] >>,
   lectors    |-> << [name |-> "L1", can_teach |-> << "S1" >>] >>,
   classrooms |-> << [name |-> "C1", max_student_count |-> 30] >>]

\* One group with two sessions, one lecturer, one classroom of twice the
\* headcount, a Monday and a Friday timeslot.
InstWeek ==
  [times      |-> << [day |-> "Monday", time |-> 1], [day |-> "Friday", time |-> 1] >>,
   subjects   |-> << [name |-> "S1", hours |-> 2] >>,
   groups     |-> << [title |-> "G1", student_count |-> 20, subject_names |-> << "S1" >>] >>,
   lectors    |-> << [name |-> "L1", can_teach |-> << "S1" >>] >>,
   classrooms |-> << [name |-> "C1", max_student_count |-> 40] >>]

\* Scenario A of the specification: one group of 20 with one session, one
\* qualified lecturer, one classroom of capacity 30, one timeslot.
InstA ==
  [times      |-> << [day |-> "Monday", time |-> 1] >>,
   subjects   |-> << [name |-> "S1", hours |-> 1] >>,
   groups     |-> << [title |-> "G1", student_count |-> 20, subject_names |-> << "S1" >>] >>,
   lectors    |-> << [name |-> "L1", can_teach |-> << "S1" >>] >>,
   classrooms |-> << [name |-> "C1", max_student_count |-> 30] >>]

\* Scenario A with a lecturer whose can_teach names a subject, "S9", that the
\* subjects list does not hold.
InstGhost ==
  [times      |-> << [day |-> "Monday", time |-> 1] >>,
   subjects   |-> << [name |-> "S1", hours |-> 1] >>,
   groups     |-> << [title |-> "G1", student_count |-> 20, subject_names |-> << "S1" >>] >>,
   lectors    |-> << [name |-> "L1", can_teach |-> << "S1", "S9" >>] >>,
   classrooms |-> << [name |-> "C1", max_student_count |-> 30] >>]

\* One group with one session of each of two subjects, two lecturers each
\* qualified for one of the subjects, one classroom, two timeslots.
InstQuals ==
  [times      |-> << [day |-> "Monday", time |-> 1], [day |-> "Monday", time |-> 2] >>,
   subjects   |-> << [name |-> "S1", hours |-> 1], [name |-> "S2", hours |-> 1] >>,
   groups     |-> << [title |-> "G1", student_count |-> 20, subject_names |-> << "S1", "S2" >>] >>,
   lectors    |-> << [name |-> "L1", can_teach |-> << "S1" >>],
                     [name |-> "L2", can_teach |-> << "S2" >>] >>,
   classrooms |-> << [name |-> "C1", max_student_count |-> 20] >>]

Data(k) ==
  CASE k = "rooms" -> InstRooms
    [] k = "two"  -> InstTwo
    [] k = "B"    -> InstB
    [] k = "week" -> InstWeek
    [] k = "A"    -> InstA
    [] k = "ghost" -> InstGhost
    [] k = "quals" -> InstQuals

\* The runs explored: <<instance, population_size>>.
Runs == { <<"rooms", 1>>, <<"two", 2>>, <<"B", 1>>, <<"week", 1>>, <<"quals", 1>> }

(* ------------------------------------------------------------------ *)
(* Helpers                                                             *)
(* ------------------------------------------------------------------ *)

Range(s) == { s[j] : j \in DOMAIN s }

\* Python's ordering of the strings used in the instances (code-point order).
StrRank(s) ==
  CASE s = "C1" -> 0 [] s = "C2" -> 1 [] s = "C3" -> 2 [] s = "Friday" -> 3 [] s = "G1" -> 4
    [] s = "G2" -> 5 [] s = "L1" -> 6 [] s = "L2" -> 7 [] s = "Monday" -> 8
    [] s = "S1" -> 9 [] s = "S2" -> 10 [] s = "Thursday" -> 11
    [] s = "Tuesday" -> 12 [] s = "Wednesday" -> 13

\* Python's comparison of two key tuples of length two.
TupleLess(a, b) == a[1] < b[1] \/ (a[1] = b[1] /\ a[2] < b[2])

\* sorted(list(S), key=...) for a set S whose keys key[x] are pairwise distinct.
RECURSIVE SortedSet(_, _)
SortedSet(S, key) ==
  IF S = {} THEN << >>
  ELSE LET m == CHOOSE x \in S : \A y \in S : ~ TupleLess(key[y], key[x])
       IN  << m >> \o SortedSet(S \ {m}, key)

\* key=lambda x: x.day on the Time objects: the period left out of the key.
TimeKey_day_only(k) ==
  [t \in DOMAIN Data(k).times |-> << StrRank(Data(k).times[t].day), 0 >>]

\* key=lambda x: (x.day, x.time) on the Time objects of the instance.
TimeKey(k) ==
  [t \in DOMAIN Data(k).times |-> << StrRank(Data(k).times[t].day), Data(k).times[t].time >>]

\* key=lambda x: x.name on Lector and Classroom objects.
LectorKey(k) == [l \in DOMAIN Data(k).lectors |-> << StrRank(Data(k).lectors[l].name), 0 >>]

ClassroomKey(k) ==
  [h \in DOMAIN Data(k).classrooms |-> << StrRank(Data(k).classrooms[h].name), 0 >>]

Pair(g, s) == [group |-> g, subject |-> s, lector |-> None, classroom |-> None, time |-> None]

RECURSIVE Repeat(_, _)
Repeat(x, n) == IF n <= 0 THEN << >> ELSE << x >> \o Repeat(x, n - 1)

\* next((s for s in self.subjects if s.name == subject), None)
SubjectByName(k, name) ==
  LET hits == { j \in DOMAIN Data(k).subjects : Data(k).subjects[j].name = name }
  IN  IF hits = {} THEN None ELSE CHOOSE j \in hits : \A h \in hits : j <= h

RECURSIVE PairsOfSubjects(_, _, _)
PairsOfSubjects(k, g, names) ==
  IF names = << >> THEN << >>
  ELSE LET s == SubjectByName(k, Head(names))
       IN  Repeat(Pair(g, s), Data(k).subjects[s].hours) \o PairsOfSubjects(k, g, Tail(names))

RECURSIVE PairsOfGroups(_, _)
PairsOfGroups(k, g) ==
  IF g > Len(Data(k).groups) THEN << >>
  ELSE PairsOfSubjects(k, g, Data(k).groups[g].subject_names) \o PairsOfGroups(k, g + 1)

create_empty_timetable(k) == PairsOfGroups(k, 1)

(* ------------------------------------------------------------------ *)
(* Availability resolver                                               *)
(* ------------------------------------------------------------------ *)

\* The resolver with only the group's own timeslots counted as busy.
_get_available_time_for_group_only(k, grid, classroom, lector, group) ==
  LET allowed_times == DOMAIN Data(k).times
      busy_times == { grid[j].time : j \in { x \in DOMAIN grid : grid[x].group = group } }
  IN  SortedSet(allowed_times \ busy_times, TimeKey(k))

_get_available_time_for_classroom_and_lector_and_group(k, grid, classroom, lector, group) ==
  LET allowed_times == DOMAIN Data(k).times
      busy_times == { grid[j].time : j \in { x \in DOMAIN grid :
                          \/ grid[x].classroom = classroom
                          \/ grid[x].lector = lector
                          \/ grid[x].group = group } }
  IN  SortedSet(allowed_times \ busy_times, TimeKey(k))

\* The resolver without the filter on the lecturers taken at `times`.
_get_available_lectors_ignoring_busy(k, grid, times, subject) ==
  IF times = None THEN << >>
  ELSE LET allowed_lectors == { l \in DOMAIN Data(k).lectors :
                                  Data(k).subjects[subject].name \in Range(Data(k).lectors[l].can_teach) }
       IN  SortedSet(allowed_lectors, LectorKey(k))

\* The resolver without the filter on the lecturer's can_teach.
_get_available_lectors_any_subject(k, grid, times, subject) ==
  IF times = None THEN << >>
  ELSE LET allowed_lectors == DOMAIN Data(k).lectors
           busy_lectors == { grid[j].lector : j \in { x \in DOMAIN grid : grid[x].time = times } }
       IN  SortedSet(allowed_lectors \ busy_lectors, LectorKey(k))

_get_available_lectors_for_time_and_subject(k, grid, times, subject) ==
  IF times = None THEN << >>
  ELSE LET allowed_lectors == { l \in DOMAIN Data(k).lectors :
                                  Data(k).subjects[subject].name \in Range(Data(k).lectors[l].can_teach) }
           busy_lectors == { grid[j].lector : j \in { x \in DOMAIN grid : grid[x].time = times } }
       IN  SortedSet(allowed_lectors \ busy_lectors, LectorKey(k))

\* The resolver without the capacity filter.
_get_available_classroom_any_capacity(k, grid, times, group) ==
  LET allowed_classrooms == DOMAIN Data(k).classrooms
      busy_classrooms == { grid[j].classroom : j \in { x \in DOMAIN grid : grid[x].time = times } }
  IN  SortedSet(allowed_classrooms \ busy_classrooms, ClassroomKey(k))

\* The resolver without the filter on the classrooms taken at `times`.
_get_available_classroom_ignoring_busy(k, grid, times, group) ==
  LET allowed_classrooms == { h \in DOMAIN Data(k).classrooms :
                                Data(k).groups[group].student_count
                                  <= Data(k).classrooms[h].max_student_count }
  IN  SortedSet(allowed_classrooms, ClassroomKey(k))

_get_available_classroom_for_time_and_group(k, grid, times, group) ==
  LET allowed_classrooms == { h \in DOMAIN Data(k).classrooms :
                                Data(k).groups[group].student_count
                                  <= Data(k).classrooms[h].max_student_count }
      busy_classrooms == { grid[j].classroom : j \in { x \in DOMAIN grid : grid[x].time = times } }
  IN  SortedSet(allowed_classrooms \ busy_classrooms, ClassroomKey(k))

(* ------------------------------------------------------------------ *)
(* Mutation                                                            *)
(* ------------------------------------------------------------------ *)

Bindings == { "classroom", "lector", "time" }

\* The candidate list mutate_timetable asks the resolver for.
Candidates(k, grid, time_index, what_to_mutate) ==
  LET time_case == grid[time_index]
  IN  CASE what_to_mutate = "classroom" ->
             _get_available_classroom_for_time_and_group(k, grid, time_case.time, time_case.group)
        [] what_to_mutate = "lector" ->
             _get_available_lectors_for_time_and_subject(k, grid, time_case.time, time_case.subject)
        [] what_to_mutate = "time" ->
             _get_available_time_for_classroom_and_lector_and_group(
                 k, grid, time_case.classroom, time_case.lector, time_case.group)

\* new_time_case = copy.copy(time_case) with one attribute replaced.
NewTimeCase(time_case, what_to_mutate, v) ==
  CASE what_to_mutate = "classroom" -> [time_case EXCEPT !.classroom = v]
    [] what_to_mutate = "lector"    -> [time_case EXCEPT !.lector = v]
    [] what_to_mutate = "time"      -> [time_case EXCEPT !.time = v]

\* new_timetable = copy.copy(timetable) is a shallow copy: the new TimeTable
\* object refers to the SAME grid list as the argument, so the item
\* assignment new_timetable.grid[time_index] = ... is visible through both.
\* Result: grid of the returned object and grid of the argument object.
ShallowCopyAssign(grid, time_index, new_time_case) ==
  LET shared == [grid EXCEPT ![time_index] = new_time_case]
  IN  [new_timetable |-> shared, timetable |-> shared]

\* Every outcome of one call mutate_timetable(timetable): the random draws
\* (time_index, what_to_mutate, the choice among the candidates) range over
\* all their values.  new_timetable/did_mutate are the returned tuple,
\* timetable is the grid of the argument object after the call.
\* mutate_timetable reporting success (True) when it found no candidate.
mutate_timetable_always_true(k, grid) ==
  UNION { LET cand == Candidates(k, grid, ix, w)
          IN  IF Len(cand) = 0
              THEN { [new_timetable |-> grid, did_mutate |-> TRUE, timetable |-> grid,
                      time_index |-> ix, what_to_mutate |-> w] }
              ELSE { [new_timetable |-> ShallowCopyAssign(grid, ix, NewTimeCase(grid[ix], w, v)).new_timetable,
                      did_mutate    |-> TRUE,
                      timetable     |-> ShallowCopyAssign(grid, ix, NewTimeCase(grid[ix], w, v)).timetable,
                      time_index    |-> ix,
                      what_to_mutate |-> w] : v \in Range(cand) }
        : <<ix, w>> \in (DOMAIN grid) \X Bindings }

mutate_timetable(k, grid) ==
  UNION { LET cand == Candidates(k, grid, ix, w)
          IN  IF Len(cand) = 0
              THEN { [new_timetable |-> grid, did_mutate |-> FALSE, timetable |-> grid,
                      time_index |-> ix, what_to_mutate |-> w] }
              ELSE { [new_timetable |-> ShallowCopyAssign(grid, ix, NewTimeCase(grid[ix], w, v)).new_timetable,
                      did_mutate    |-> TRUE,
                      timetable     |-> ShallowCopyAssign(grid, ix, NewTimeCase(grid[ix], w, v)).timetable,
                      time_index    |-> ix,
                      what_to_mutate |-> w] : v \in Range(cand) }
        : <<ix, w>> \in (DOMAIN grid) \X Bindings }

(* ------------------------------------------------------------------ *)
(* Conflict detection and validity                                     *)
(* ------------------------------------------------------------------ *)

Count(seq, v) == Cardinality({ j \in DOMAIN seq : seq[j] = v })

\* times[key]: the .time of every Pair whose attribute `field` is key, in grid
\* order (from index j on).
RECURSIVE TimeCasesFrom(_, _, _, _)
TimeCasesFrom(grid, field, key, j) ==
  IF j > Len(grid) THEN << >>
  ELSE (IF grid[j][field] = key THEN << grid[j].time >> ELSE << >>)
         \o TimeCasesFrom(grid, field, key, j + 1)

TimeCasesOf(grid, field, key) == TimeCasesFrom(grid, field, key, 1)

\* The conflicts dictionary without the `time is not None` test.
FindTimeConflicts_counting_none(grid, field) ==
  [key \in { grid[j][field] : j \in DOMAIN grid } \ {None} |->
     LET time_cases == TimeCasesOf(grid, field, key)
         Dup(t) == Count(time_cases, t) > 1
     IN  SelectSeq(time_cases, Dup)]

\* The conflicts dictionary of _find_time_conflicts_for_all_<field>s: one
\* entry per resource bound in the grid (None skipped), listing every
\* non-None time that occurs more than once among its time cases.
FindTimeConflicts(grid, field) ==
  [key \in { grid[j][field] : j \in DOMAIN grid } \ {None} |->
     LET time_cases == TimeCasesOf(grid, field, key)
         Dup(t) == t # None /\ Count(time_cases, t) > 1
     IN  SelectSeq(time_cases, Dup)]

_find_time_conflicts_for_all_groups(grid) == FindTimeConflicts(grid, "group")

_find_time_conflicts_for_all_classrooms(grid) == FindTimeConflicts(grid, "classroom")

_find_time_conflicts_for_all_lectors(grid) == FindTimeConflicts(grid, "lector")

\* not any(d.values()): every list of the dictionary is empty.
NoneTruthy(d) == \A key \in DOMAIN d : d[key] = << >>

\* is_valid() looking at the groups' conflicts only.
is_valid_groups_only(grid) == NoneTruthy(_find_time_conflicts_for_all_groups(grid))

\* is_valid()[0]
is_valid(grid) ==
  /\ NoneTruthy(_find_time_conflicts_for_all_groups(grid))
  /\ NoneTruthy(_find_time_conflicts_for_all_classrooms(grid))
  /\ NoneTruthy(_find_time_conflicts_for_all_lectors(grid))

(* ------------------------------------------------------------------ *)
(* Crossover                                                           *)
(* ------------------------------------------------------------------ *)

\* Every outcome of self.crossover(other): a fresh list that starts as a copy
\* of self.grid; S is the set of indices whose coin came up > 0.5.
RECURSIVE CrossoverWith(_, _, _, _)
CrossoverWith(self, other, S, j) ==
  IF j > Len(self) THEN << >>
  ELSE << IF j \in S THEN other[j] ELSE self[j] >> \o CrossoverWith(self, other, S, j + 1)

\* crossover taking the other parent's entries from the mirrored index.
crossover_mirrored(self, other) ==
  { [j \in DOMAIN self |-> IF j \in S THEN other[Len(other) + 1 - j] ELSE self[j]]
      : S \in SUBSET (DOMAIN self) }

\* crossover flipping one coin for the whole grid instead of one per index.
crossover_single_coin(self, other) ==
  { CrossoverWith(self, other, S, 1) : S \in { {}, DOMAIN self } }

crossover(self, other) == { CrossoverWith(self, other, S, 1) : S \in SUBSET (DOMAIN self) }

(* ------------------------------------------------------------------ *)
(* Costs and fitness                                                   *)
(* ------------------------------------------------------------------ *)

\* time_scores[times] = index of the Time in the loaded list (from 0).
time_scores(k) == [t \in DOMAIN Data(k).times |-> t - 1]

\* sorted(v, key=lambda x: (x.day, x.time)) for a list v of Times: stable
\* insertion by the key.
RECURSIVE SortedTimes(_, _)
SortedTimes(k, v) ==
  IF v = << >> THEN << >>
  ELSE LET rest == SortedTimes(k, Tail(v))
           x == Head(v)
           Before(y) == TupleLess(TimeKey(k)[y], TimeKey(k)[x])
           NotBefore(y) == ~ Before(y)
       IN  SelectSeq(rest, Before) \o << x >> \o SelectSeq(rest, NotBefore)

\* for i in range(len(sorted_times) - 1): cost += score[i + 1] - score[i]
RECURSIVE DeltaSum(_, _, _)
DeltaSum(k, sorted_times, j) ==
  IF j >= Len(sorted_times) THEN 0
  ELSE time_scores(k)[sorted_times[j + 1]] - time_scores(k)[sorted_times[j]]
         + DeltaSum(k, sorted_times, j + 1)

\* Sum of the consecutive score deltas of one resource's sorted times.
WindowOf(k, v) == DeltaSum(k, SortedTimes(k, v), 1)

RECURSIVE SumOver(_, _)
SumOver(S, f) ==
  IF S = {} THEN 0 ELSE LET x == CHOOSE y \in S : TRUE IN f[x] + SumOver(S \ {x}, f)

WindowsCost(k, grid, field) ==
  LET keys == { grid[j][field] : j \in DOMAIN grid } \ {None}
  IN  SumOver(keys, [key \in keys |-> WindowOf(k, TimeCasesOf(grid, field, key))])

_get_group_windows_cost(k, grid) == WindowsCost(k, grid, "group")

_get_lector_windows_cost(k, grid) == WindowsCost(k, grid, "lector")

\* Every Pair with a time adds the score of its time (score * count per time).
RECURSIVE EarlinessFrom(_, _, _)
EarlinessFrom(k, grid, j) ==
  IF j > Len(grid) THEN 0
  ELSE (IF grid[j].time = None THEN 0 ELSE time_scores(k)[grid[j].time])
         + EarlinessFrom(k, grid, j + 1)

_get_time_earliness_cost(k, grid) == EarlinessFrom(k, grid, 1)

RECURSIVE Gcd(_, _)
Gcd(a, b) == IF b = 0 THEN a ELSE Gcd(b, a % b)

RECURSIVE LcmFrom(_, _)
LcmFrom(caps, j) ==
  IF j > Len(caps) THEN 1
  ELSE (caps[j].max_student_count * LcmFrom(caps, j + 1))
         \div Gcd(caps[j].max_student_count, LcmFrom(caps, j + 1))

\* Common denominator of the capacity-fill fractions, per instance.
CapLcmOf == { << k, LcmFrom(Data(k).classrooms, 1) >> : k \in { "rooms", "two", "B", "week", "A", "ghost", "quals" } }

CapLcm(k) == (CHOOSE e \in CapLcmOf : e[1] = k)[2]

RECURSIVE FillCostFrom(_, _, _)
FillCostFrom(k, grid, j) ==
  IF j > Len(grid) THEN 0
  ELSE (IF grid[j].classroom = None \/ grid[j].group = None THEN 0
        ELSE (Data(k).classrooms[grid[j].classroom].max_student_count
                - Data(k).groups[grid[j].group].student_count)
             * (CapLcm(k) \div Data(k).classrooms[grid[j].classroom].max_student_count))
         + FillCostFrom(k, grid, j + 1)

\* The capacity-fill cost times CapLcm(k) (an integer).
_get_group_capacity_classroom_capacity_fill_cost(k, grid) == FillCostFrom(k, grid, 1)

\* Weights 1, 1, 0.5, 0.5; the total cost times 2 * CapLcm(k) (an integer).
Cost(k, grid) ==
  2 * CapLcm(k) * _get_group_windows_cost(k, grid)
  + 2 * CapLcm(k) * _get_lector_windows_cost(k, grid)
  + CapLcm(k) * _get_time_earliness_cost(k, grid)
  + _get_group_capacity_classroom_capacity_fill_cost(k, grid)

\* 1 / (1 + cost) as the fraction num/den; den = 0 is Python's ZeroDivisionError.
get_timetable_fitness(k, grid) == [num |-> 2 * CapLcm(k), den |-> 2 * CapLcm(k) + Cost(k, grid)]

Zero == [num |-> 0, den |-> 1]

Sgn(x) == IF x < 0 THEN 0 - 1 ELSE 1

Abs(x) == IF x < 0 THEN 0 - x ELSE x

\* a > b and a == b on fitness values with non-zero denominators.
FitGT(a, b) == a.num * Sgn(a.den) * Abs(b.den) > b.num * Sgn(b.den) * Abs(a.den)

FitEQ(a, b) == a.num * Sgn(a.den) * Abs(b.den) = b.num * Sgn(b.den) * Abs(a.den)

Defined(k, grid) == get_timetable_fitness(k, grid).den # 0

\* The fitness of every member, as pairs << index, fitness >>.
Fitnesses(k, population) ==
  { << j, get_timetable_fitness(k, population[j]) >> : j \in DOMAIN population }

\* max(population, key=fitness): the first member no other member beats.
MaxByFitness(k, population) ==
  population[CHOOSE j \in DOMAIN population :
    \E F \in { Fitnesses(k, population) } : \E a \in F :
       /\ a[1] = j
       /\ \A b \in F : ~ FitGT(b[2], a[2]) /\ (b[1] < j => FitGT(a[2], b[2]))]

\* Every Schedule tournament_selection can return: the draws (with
\* replacement) cover a non-empty set S of at most tournament_size members,
\* and the first-drawn member of maximal fitness wins.
tournament_selection(k, population, tournament_size) ==
  { population[a[1]] : a \in { a \in Fitnesses(k, population) :
      \E S \in SUBSET Fitnesses(k, population) :
         /\ a \in S
         /\ Cardinality(S) <= tournament_size
         /\ \A b \in S : ~ FitGT(b[2], a[2]) } }

(* ------------------------------------------------------------------ *)
(* Fill phase of init_random_timetable                                 *)
(* ------------------------------------------------------------------ *)

\* One `if time_case.<what> is None:` block for the Pair at index j: the
\* grids it can leave behind; the empty set means no candidate was found.
FillBinding(k, grid, j, what) ==
  IF grid[j][what] # None THEN { grid }
  ELSE { [grid EXCEPT ![j] = NewTimeCase(grid[j], what, v)] : v \in Range(Candidates(k, grid, j, what)) }

RestartOutcome == [restart |-> TRUE, grid |-> << >>]

\* The for-loop over timetable.grid from index j on: classroom, then lector,
\* then time, each assigned in place; `restart` marks the recursive call.
RECURSIVE FillFrom(_, _, _)
FillFrom(k, grid, j) ==
  IF j > Len(grid) THEN { [restart |-> FALSE, grid |-> grid] }
  ELSE LET A == FillBinding(k, grid, j, "classroom")
       IN  IF A = {} THEN { RestartOutcome }
           ELSE UNION { LET B == FillBinding(k, a, j, "lector")
                        IN  IF B = {} THEN { RestartOutcome }
                            ELSE UNION { LET C == FillBinding(k, b, j, "time")
                                         IN  IF C = {} THEN { RestartOutcome }
                                             ELSE UNION { FillFrom(k, c, j + 1) : c \in C }
                                       : b \in B }
                      : a \in A }

(* ------------------------------------------------------------------ *)
(* State                                                               *)
(* ------------------------------------------------------------------ *)

\* Program constants of init_random_timetable and genetic.
MutationAttempts == 1000

TournamentSize == 10

SameBestLimit == 10

\* Restarts the interpreter's recursion limit leaves room for (CPython's
\* default limit is 1000 frames; every restart is one more frame).
RecursionLimit == 2

\* Largest raw value of a random draw (random.choice takes it modulo the
\* length of its list).
MaxDraw == 2

\* Longest count of generations the history variable `generations` keeps.
MaxGenerations == 101

VARIABLES
  inst,                         \* the loaded problem instance
  population_size,              \* argument of genetic()
  pc,                           \* position of the run
  timetable,                    \* the Schedule under construction / operated on
  i,                            \* mutation attempts made by init_random_timetable
  depth,                        \* nested calls of init_random_timetable (restarts)
  current_population,
  new_population,
  child,                        \* the last child produced by the reproduction loop
  number_of_same_best_fitness,
  curr_best_fitness,
  number_of_generations,
  best_timetable,               \* the value genetic() returns
  generations,                  \* history: generation loop iterations completed
  streak,                       \* history: latest consecutive generations whose best
                                \* fitness equals that of the generation before
  op,                           \* operator calls: the last operation applied
  before,                       \* operator calls: grid of the argument before the call
  arg_timetable,                \* operator calls: grid of the argument object after the call
  other,                        \* operator calls: the second Schedule
  time_index,                   \* operator calls: locals of mutate_timetable
  what_to_mutate,
  did_mutate,
  result,                       \* operator calls: the value the last call returned
  twin,                         \* a second run fed the same random draws: its Schedules
  heap                          \* object view of a reproduction loop: the Pair, list and
                                \* TimeTable objects and the references between them

genvars == << inst, population_size, pc, timetable, i, depth, current_population, new_population,
              child, number_of_same_best_fitness, curr_best_fitness, number_of_generations,
              best_timetable, generations, streak >>

genvars_but_timetable ==
  << inst, population_size, pc, i, depth, current_population, new_population,
     child, number_of_same_best_fitness, curr_best_fitness, number_of_generations,
     best_timetable, generations, streak >>

opvars == << op, before, arg_timetable, other, time_index, what_to_mutate, did_mutate, result, twin, heap >>

vars == << genvars, opvars >>

Min(a, b) == IF a < b THEN a ELSE b

(* ------------------------------------------------------------------ *)
(* genetic()                                                           *)
(* ------------------------------------------------------------------ *)

Init ==
  /\ \E r \in Runs : inst = r[1] /\ population_size = r[2]
  /\ pc = "init"
  /\ timetable = create_empty_timetable(inst)
  /\ i = 0
  /\ depth = 0
  /\ current_population = << >>
  /\ new_population = << >>
  /\ child = << >>
  /\ number_of_same_best_fitness = 0
  /\ curr_best_fitness = Zero
  /\ number_of_generations = 100
  /\ best_timetable = << >>
  /\ generations = 0
  /\ streak = 0
  /\ op = "none"
  /\ before = << >>
  /\ arg_timetable = << >>
  /\ other = << >>
  /\ time_index = 0
  /\ what_to_mutate = "none"
  /\ did_mutate = FALSE
  /\ result = << >>
  /\ twin = << >>
  /\ heap = << >>

\* One iteration of `while i < 1000` in init_random_timetable.
InitMutate ==
  /\ pc = "init"
  /\ i < MutationAttempts
  /\ \E o \in mutate_timetable(inst, timetable) : timetable' = o.new_timetable
  /\ i' = i + 1
  /\ UNCHANGED << inst, population_size, depth, pc, current_population, new_population, child,
                  number_of_same_best_fitness, curr_best_fitness, number_of_generations,
                  best_timetable, generations, streak, opvars >>

\* The fill phase finds a binding with no candidate: init_random_timetable
\* calls itself, which starts again from an empty timetable.
InitRestart ==
  /\ pc = "init"
  /\ i = MutationAttempts
  /\ RestartOutcome \in FillFrom(inst, timetable, 1)
  /\ depth < RecursionLimit
  /\ depth' = depth + 1
  /\ timetable' = create_empty_timetable(inst)
  /\ i' = 0
  /\ UNCHANGED << inst, population_size, pc, current_population, new_population, child,
                  number_of_same_best_fitness, curr_best_fitness, number_of_generations,
                  best_timetable, generations, streak, opvars >>

\* The restart at the recursion limit written as a loop: no frame is added
\* and nothing is raised.
InitRecursionError_as_loop ==
  /\ pc = "init"
  /\ i = MutationAttempts
  /\ RestartOutcome \in FillFrom(inst, timetable, 1)
  /\ depth = RecursionLimit
  /\ timetable' = create_empty_timetable(inst)
  /\ i' = 0
  /\ UNCHANGED << inst, population_size, depth, pc, current_population, new_population,
                  child, number_of_same_best_fitness, curr_best_fitness, number_of_generations,
                  best_timetable, generations, streak, opvars >>

\* The nested call of a restart exceeds the interpreter's recursion limit and
\* RecursionError propagates out of genetic(): the program keeps no count of
\* its restarts, the interpreter's stack is what ends them.
InitRecursionError ==
  /\ pc = "init"
  /\ i = MutationAttempts
  /\ RestartOutcome \in FillFrom(inst, timetable, 1)
  /\ depth = RecursionLimit
  /\ pc' = "RecursionError"
  /\ UNCHANGED << inst, population_size, depth, timetable, i, current_population, new_population,
                  child, number_of_same_best_fitness, curr_best_fitness, number_of_generations,
                  best_timetable, generations, streak, opvars >>

\* The fill phase completes: init_random_timetable returns and genetic()
\* appends the Schedule to current_population.
InitReturn ==
  /\ pc = "init"
  /\ i = MutationAttempts
  /\ \E r \in FillFrom(inst, timetable, 1) :
        /\ ~ r.restart
        /\ current_population' = Append(current_population, r.grid)
  /\ i' = 0
  /\ depth' = 0
  /\ IF Len(current_population) + 1 < population_size
     THEN /\ timetable' = create_empty_timetable(inst)
          /\ pc' = "init"
     ELSE /\ timetable' = << >>
          /\ pc' = "generation"
  /\ UNCHANGED << inst, population_size, new_population, child,
                  number_of_same_best_fitness, curr_best_fitness, number_of_generations,
                  best_timetable, generations, streak, opvars >>

\* The children one pass of the reproduction loop can produce.
Children(k, population) ==
  UNION { UNION { LET c == crossover(parent1, parent2)
                  IN  c \cup UNION { { o.new_timetable : o \in mutate_timetable(k, x) } : x \in c }
                : parent2 \in tournament_selection(k, population, TournamentSize) }
        : parent1 \in tournament_selection(k, population, TournamentSize) }

\* One pass that appends the child without asking child.is_valid().
ReproduceAccept_unchecked ==
  /\ pc = "generation"
  /\ Len(new_population) < population_size
  /\ \A j \in DOMAIN current_population : Defined(inst, current_population[j])
  /\ \E c \in Children(inst, current_population) :
        /\ child' = c
        /\ new_population' = Append(new_population, c)
  /\ UNCHANGED << inst, population_size, depth, pc, timetable, i, current_population,
                  number_of_same_best_fitness, curr_best_fitness, number_of_generations,
                  best_timetable, generations, streak, opvars >>

\* One pass of `while len(new_population) < population_size` whose child is valid.
ReproduceAccept ==
  /\ pc = "generation"
  /\ Len(new_population) < population_size
  /\ \A j \in DOMAIN current_population : Defined(inst, current_population[j])
  /\ \E c \in Children(inst, current_population) :
        /\ is_valid(c)
        /\ child' = c
        /\ new_population' = Append(new_population, c)
  /\ UNCHANGED << inst, population_size, depth, pc, timetable, i, current_population,
                  number_of_same_best_fitness, curr_best_fitness, number_of_generations,
                  best_timetable, generations, streak, opvars >>

\* One pass whose child fails is_valid() and is dropped.
ReproduceReject ==
  /\ pc = "generation"
  /\ Len(new_population) < population_size
  /\ \A j \in DOMAIN current_population : Defined(inst, current_population[j])
  /\ \E c \in Children(inst, current_population) :
        /\ ~ is_valid(c)
        /\ child' = c
  /\ UNCHANGED << inst, population_size, depth, pc, timetable, i, current_population, new_population,
                  number_of_same_best_fitness, curr_best_fitness, number_of_generations,
                  best_timetable, generations, streak, opvars >>

\* get_timetable_fitness divides by zero (total cost = -1) while a tournament,
\* the bookkeeping or the final max() evaluates a Schedule.
RaiseZeroDivision ==
  /\ \/ /\ pc = "generation"
        /\ Len(new_population) < population_size
        /\ \E j \in DOMAIN current_population : ~ Defined(inst, current_population[j])
     \/ /\ pc = "generation"
        /\ Len(new_population) = population_size
        /\ \E j \in DOMAIN new_population : ~ Defined(inst, new_population[j])
  /\ pc' = "ZeroDivisionError"
  /\ UNCHANGED << inst, population_size, depth, timetable, i, current_population, new_population,
                  child, number_of_same_best_fitness, curr_best_fitness, number_of_generations,
                  best_timetable, generations, streak, opvars >>

\* best_fitness = get_timetable_fitness(max(population, key=fitness))
BestFitness(k, population) ==
  CHOOSE f \in { get_timetable_fitness(k, best) : best \in { MaxByFitness(k, population) } } : TRUE

\* The value of number_of_same_best_fitness after the if/elif of the bookkeeping.
SameBestAfter(best_fitness, curr_best, same_best) ==
  IF FitGT(best_fitness, curr_best) THEN 0
  ELSE IF FitEQ(best_fitness, curr_best) THEN same_best + 1
       ELSE same_best

\* The value of curr_best_fitness after the bookkeeping.
CurrBestAfter(best_fitness, curr_best) ==
  IF FitGT(best_fitness, curr_best) THEN best_fitness ELSE curr_best

\* The condition of `while number_of_generations > 0 and number_of_same_best_fitness < 10`.
LoopCondition(generations_left, same_best) == generations_left > 0 /\ same_best < SameBestLimit

\* End of one iteration of the generation loop: the new population replaces
\* the old one, the best-fitness bookkeeping is updated and the loop
\* condition is tested.
GenerationEnd ==
  /\ pc = "generation"
  /\ Len(new_population) = population_size
  /\ \A j \in DOMAIN new_population : Defined(inst, new_population[j])
  /\ current_population' = new_population
  /\ \E best_fitness \in { BestFitness(inst, new_population) } :
        /\ curr_best_fitness' = CurrBestAfter(best_fitness, curr_best_fitness)
        /\ \E same_best \in { SameBestAfter(best_fitness, curr_best_fitness,
                                              number_of_same_best_fitness) } :
              /\ number_of_same_best_fitness' = same_best
              /\ pc' = IF LoopCondition(number_of_generations, same_best)
                       THEN "generation" ELSE "return"
        /\ \E previous_best \in { BestFitness(inst, current_population) } :
              streak' = IF FitEQ(best_fitness, previous_best)
                        THEN Min(streak + 1, SameBestLimit) ELSE 0
  /\ generations' = Min(generations + 1, MaxGenerations)
  /\ new_population' = << >>
  /\ UNCHANGED << inst, population_size, depth, timetable, i, child, number_of_generations,
                  best_timetable, opvars >>

\* best_timetable = max(current_population, key=fitness); return best_timetable
Return ==
  /\ pc = "return"
  /\ best_timetable' = MaxByFitness(inst, current_population)
  /\ pc' = "done"
  /\ UNCHANGED << inst, population_size, depth, timetable, i, current_population, new_population,
                  child, number_of_same_best_fitness, curr_best_fitness, number_of_generations,
                  generations, streak, opvars >>

Next ==
  \/ InitMutate
  \/ InitRestart
  \/ InitRecursionError
  \/ InitReturn
  \/ ReproduceAccept
  \/ ReproduceReject
  \/ RaiseZeroDivision
  \/ GenerationEnd
  \/ Return

Spec == Init /\ [][Next]_vars

(* ------------------------------------------------------------------ *)
(* genetic() on the single-session instances                           *)
(* ------------------------------------------------------------------ *)

ScenarioRuns == { << "A", 1 >>, << "A", 2 >>, << "ghost", 1 >> }

ScenarioInit ==
  /\ \E r \in ScenarioRuns : inst = r[1] /\ population_size = r[2]
  /\ pc = "init"
  /\ timetable = create_empty_timetable(inst)
  /\ i = 0
  /\ depth = 0
  /\ current_population = << >>
  /\ new_population = << >>
  /\ child = << >>
  /\ number_of_same_best_fitness = 0
  /\ curr_best_fitness = Zero
  /\ number_of_generations = 100
  /\ best_timetable = << >>
  /\ generations = 0
  /\ streak = 0
  /\ op = "none"
  /\ before = << >>
  /\ arg_timetable = << >>
  /\ other = << >>
  /\ time_index = 0
  /\ what_to_mutate = "none"
  /\ did_mutate = FALSE
  /\ result = << >>
  /\ twin = << >>
  /\ heap = << >>

\* With one Assignment and one value for each binding no child is invalid
\* and no cost is negative; the fill can still restart (a lecturer is asked
\* for while the timeslot is unset).
ScenarioNext ==
  \/ InitMutate
  \/ InitRestart
  \/ InitRecursionError
  \/ InitReturn
  \/ ReproduceAccept
  \/ GenerationEnd
  \/ Return

ScenarioSpec == ScenarioInit /\ [][ScenarioNext]_vars

(* ------------------------------------------------------------------ *)
(* init_random_timetable on its own: one call from genetic()           *)
(* ------------------------------------------------------------------ *)

InitRuns == { << "B", 1 >>, << "rooms", 1 >> }

InitOnly ==
  /\ Init
  /\ << inst, population_size >> \in InitRuns

InitNext == InitMutate \/ InitRestart \/ InitRecursionError \/ InitReturn

\* The interpreter keeps executing the call until it returns or raises.
InitFairSpec == InitOnly /\ [][InitNext]_vars /\ WF_vars(InitNext)

(* ------------------------------------------------------------------ *)
(* The generation loop on its own, from a built initial population     *)
(* ------------------------------------------------------------------ *)

\* The fully bound Schedules of instance k whose bindings the Resolver allows:
\* what init_random_timetable can return.
FullSchedules(k) ==
  LET empty == create_empty_timetable(k)
      Bound(j) == { [empty[j] EXCEPT !.classroom = c, !.lector = l, !.time = t] :
                      c \in { h \in DOMAIN Data(k).classrooms :
                                Data(k).groups[empty[j].group].student_count
                                  <= Data(k).classrooms[h].max_student_count },
                      l \in { x \in DOMAIN Data(k).lectors :
                                Data(k).subjects[empty[j].subject].name
                                  \in Range(Data(k).lectors[x].can_teach) },
                      t \in DOMAIN Data(k).times }
  IN  { g \in [DOMAIN empty -> UNION { Bound(j) : j \in DOMAIN empty }] :
          /\ \A j \in DOMAIN empty : g[j] \in Bound(j)
          /\ is_valid(g) }

LoopRuns == { <<"rooms", 1>>, <<"two", 2>> }

\* genetic() after `for _ in range(population_size)`: the initial population
\* is built and the generation loop is about to start.
LoopInit ==
  /\ \E r \in LoopRuns : inst = r[1] /\ population_size = r[2]
  /\ pc = "generation"
  /\ timetable = << >>
  /\ i = 0
  /\ depth = 0
  /\ current_population \in [1 .. population_size -> FullSchedules(inst)]
  /\ new_population = << >>
  /\ child = << >>
  /\ number_of_same_best_fitness = 0
  /\ curr_best_fitness = Zero
  /\ number_of_generations = 100
  /\ best_timetable = << >>
  /\ generations = 0
  /\ streak = 0
  /\ op = "none"
  /\ before = << >>
  /\ arg_timetable = << >>
  /\ other = << >>
  /\ time_index = 0
  /\ what_to_mutate = "none"
  /\ did_mutate = FALSE
  /\ result = << >>
  /\ twin = << >>
  /\ heap = << >>

LoopNext == ReproduceAccept \/ ReproduceReject \/ GenerationEnd \/ Return

\* The program keeps executing, and a reproduction pass that can produce a
\* valid child eventually does.
LoopFairSpec == LoopInit /\ [][LoopNext]_vars /\ WF_vars(LoopNext) /\ WF_vars(ReproduceAccept)

\* Every initial population genetic() builds is one LoopInit starts from.
LoopInitCoversGenetic ==
  (pc = "generation" /\ generations = 0 /\ new_population = << >>) =>
     current_population \in [1 .. population_size -> FullSchedules(inst)]

(* ------------------------------------------------------------------ *)
(* Operator calls: mutate_timetable and crossover applied, in any      *)
(* order, to Schedules built from the empty timetable                  *)
(* ------------------------------------------------------------------ *)

OpInstances == { "two", "rooms" }

OpInit ==
  /\ inst \in OpInstances
  /\ population_size = 1
  /\ pc = "ops"
  /\ timetable = create_empty_timetable(inst)
  /\ i = 0
  /\ depth = 0
  /\ current_population = << >>
  /\ new_population = << >>
  /\ child = << >>
  /\ number_of_same_best_fitness = 0
  /\ curr_best_fitness = Zero
  /\ number_of_generations = 100
  /\ best_timetable = << >>
  /\ generations = 0
  /\ streak = 0
  /\ op = "none"
  /\ before = << >>
  /\ arg_timetable = << >>
  /\ other = create_empty_timetable(inst)
  /\ time_index = 0
  /\ what_to_mutate = "none"
  /\ did_mutate = FALSE
  /\ result = << >>
  /\ twin = << >>
  /\ heap = << >>

\* timetable, did_mutate = mutate_timetable(timetable)
OpMutate ==
  /\ pc = "ops"
  /\ \E o \in mutate_timetable(inst, timetable) :
        /\ timetable' = o.new_timetable
        /\ arg_timetable' = o.timetable
        /\ did_mutate' = o.did_mutate
        /\ time_index' = o.time_index
        /\ what_to_mutate' = o.what_to_mutate
  /\ before' = timetable
  /\ op' = "mutate"
  /\ UNCHANGED << genvars_but_timetable, other, result, twin, heap >>

\* timetable = timetable.crossover(other); crossover works on a copy of
\* self.grid, so the argument object keeps its grid.
OpCrossover ==
  /\ pc = "ops"
  /\ \E c \in crossover(timetable, other) : timetable' = c
  /\ before' = timetable
  /\ arg_timetable' = timetable
  /\ op' = "crossover"
  /\ did_mutate' = FALSE
  /\ time_index' = 0
  /\ what_to_mutate' = "none"
  /\ UNCHANGED << genvars_but_timetable, other, result, twin, heap >>

\* other = timetable: keep the current Schedule as the second parent.
OpKeep ==
  /\ pc = "ops"
  /\ other' = timetable
  /\ op' = "keep"
  /\ before' = << >>
  /\ arg_timetable' = << >>
  /\ did_mutate' = FALSE
  /\ time_index' = 0
  /\ what_to_mutate' = "none"
  /\ UNCHANGED << genvars, result, twin, heap >>

\* timetable = create_empty_timetable()
OpEmpty ==
  /\ pc = "ops"
  /\ timetable' = create_empty_timetable(inst)
  /\ op' = "empty"
  /\ before' = << >>
  /\ arg_timetable' = << >>
  /\ did_mutate' = FALSE
  /\ time_index' = 0
  /\ what_to_mutate' = "none"
  /\ UNCHANGED << genvars_but_timetable, other, result, twin, heap >>

OpNext == OpMutate \/ OpCrossover \/ OpKeep \/ OpEmpty

OpSpec == OpInit /\ [][OpNext]_vars

(* ------------------------------------------------------------------ *)
(* is_valid() called on any Schedule of an instance                    *)
(* ------------------------------------------------------------------ *)

CheckInstances == { "two", "week", "rooms" }

\* The grids of instance k with any binding, set or not, in every Pair.
AnyGrids(k) ==
  LET empty == create_empty_timetable(k)
      AnyPair(j) == { [empty[j] EXCEPT !.classroom = c, !.lector = l, !.time = t] :
                    c \in { None } \cup DOMAIN Data(k).classrooms,
                    l \in { None } \cup DOMAIN Data(k).lectors,
                    t \in { None } \cup DOMAIN Data(k).times }
  IN  { g \in [DOMAIN empty -> UNION { AnyPair(j) : j \in DOMAIN empty }] :
          \A j \in DOMAIN empty : g[j] \in AnyPair(j) }

CheckInit ==
  /\ inst \in CheckInstances
  /\ population_size = 1
  /\ pc = "check"
  /\ timetable \in AnyGrids(inst)
  /\ i = 0
  /\ depth = 0
  /\ current_population = << >>
  /\ new_population = << >>
  /\ child = << >>
  /\ number_of_same_best_fitness = 0
  /\ curr_best_fitness = Zero
  /\ number_of_generations = 100
  /\ best_timetable = << >>
  /\ generations = 0
  /\ streak = 0
  /\ op = "none"
  /\ before = << >>
  /\ arg_timetable = << >>
  /\ other = << >>
  /\ time_index = 0
  /\ what_to_mutate = "none"
  /\ did_mutate = FALSE
  /\ result = << >>
  /\ twin = << >>
  /\ heap = << >>

\* result = timetable.is_valid(): the boolean and the three conflict maps.
CheckIsValid ==
  /\ pc = "check"
  /\ op = "none"
  /\ result' = [valid      |-> is_valid(timetable),
                groups     |-> _find_time_conflicts_for_all_groups(timetable),
                classrooms |-> _find_time_conflicts_for_all_classrooms(timetable),
                lectors    |-> _find_time_conflicts_for_all_lectors(timetable)]
  /\ op' = "is_valid"
  /\ UNCHANGED << genvars, before, arg_timetable, other, time_index, what_to_mutate, did_mutate,
                  twin, heap >>

\* new_timetable, did_mutate = mutate_timetable(timetable) on any grid.
CheckMutate ==
  /\ pc = "check"
  /\ op = "none"
  /\ \E o \in mutate_timetable(inst, timetable) :
        /\ timetable' = o.new_timetable
        /\ arg_timetable' = o.timetable
        /\ did_mutate' = o.did_mutate
        /\ time_index' = o.time_index
        /\ what_to_mutate' = o.what_to_mutate
  /\ before' = timetable
  /\ op' = "mutate"
  /\ UNCHANGED << genvars_but_timetable, other, result, twin, heap >>

\* The three resolver calls mutate_timetable and the fill make for the
\* Assignment at index ix of any grid.
CheckResolve ==
  /\ pc = "check"
  /\ op = "none"
  /\ \E ix \in DOMAIN timetable :
        /\ time_index' = ix
        /\ result' = [classrooms |-> _get_available_classroom_for_time_and_group(
                                       inst, timetable, timetable[ix].time, timetable[ix].group),
                      lectors    |-> _get_available_lectors_for_time_and_subject(
                                       inst, timetable, timetable[ix].time, timetable[ix].subject),
                      times      |-> _get_available_time_for_classroom_and_lector_and_group(
                                       inst, timetable, timetable[ix].classroom,
                                       timetable[ix].lector, timetable[ix].group)]
  /\ op' = "resolve"
  /\ UNCHANGED << genvars, before, arg_timetable, other, what_to_mutate, did_mutate, twin,
                  heap >>

CheckNext == CheckIsValid \/ CheckMutate \/ CheckResolve

CheckSpec == CheckInit /\ [][CheckNext]_vars

(* ------------------------------------------------------------------ *)
(* Two runs of the operators on the same random draws                  *)
(* ------------------------------------------------------------------ *)

\* Every list sorted(list(S), key=...) can return: list(S) enumerates the set
\* in an order that depends on the hashes, and the stable sort keeps elements
\* of equal key in that order.
SortedOrders(S, key) ==
  { seq \in [1 .. Cardinality(S) -> S] :
      /\ \A a, b \in 1 .. Cardinality(S) : a # b => seq[a] # seq[b]
      /\ \A a, b \in 1 .. Cardinality(S) : a < b => ~ TupleLess(key[seq[b]], key[seq[a]]) }

KeyOf(k, what) ==
  CASE what = "classroom" -> ClassroomKey(k)
    [] what = "lector"    -> LectorKey(k)
    [] what = "time"      -> TimeKey(k)

\* The grids mutate_timetable can return on the draws time_index = ix,
\* what_to_mutate = what, and raw draw u of random.choice.
MutateDrawn(k, grid, ix, what, u) ==
  IF Candidates(k, grid, ix, what) = << >> THEN { grid }
  ELSE { [grid EXCEPT ![ix] = NewTimeCase(grid[ix], what, cand[(u % Len(cand)) + 1])] :
           cand \in SortedOrders(Range(Candidates(k, grid, ix, what)), KeyOf(k, what)) }

TwinInit ==
  /\ inst \in OpInstances
  /\ population_size = 1
  /\ pc = "twin"
  /\ timetable = create_empty_timetable(inst)
  /\ i = 0
  /\ depth = 0
  /\ current_population = << >>
  /\ new_population = << >>
  /\ child = << >>
  /\ number_of_same_best_fitness = 0
  /\ curr_best_fitness = Zero
  /\ number_of_generations = 100
  /\ best_timetable = << >>
  /\ generations = 0
  /\ streak = 0
  /\ op = "none"
  /\ before = << >>
  /\ arg_timetable = << >>
  /\ other = create_empty_timetable(inst)
  /\ time_index = 0
  /\ what_to_mutate = "none"
  /\ did_mutate = FALSE
  /\ result = << >>
  /\ twin = [timetable |-> create_empty_timetable(inst), other |-> create_empty_timetable(inst)]
  /\ heap = << >>

\* Both runs call mutate_timetable on their Schedule with the same draws.
TwinMutate ==
  /\ pc = "twin"
  /\ \E ix \in DOMAIN timetable : \E what \in Bindings : \E u \in 0 .. MaxDraw :
        /\ timetable' \in MutateDrawn(inst, timetable, ix, what, u)
        /\ \E g \in MutateDrawn(inst, twin.timetable, ix, what, u) :
              twin' = [twin EXCEPT !.timetable = g]
        /\ time_index' = ix
        /\ what_to_mutate' = what
        /\ did_mutate' = (Candidates(inst, timetable, ix, what) # << >>)
  /\ before' = timetable
  /\ arg_timetable' = timetable'
  /\ op' = "mutate"
  /\ UNCHANGED << genvars_but_timetable, other, result, heap >>

\* Both runs call crossover with the same coin flips.
TwinCrossover ==
  /\ pc = "twin"
  /\ \E S \in SUBSET (DOMAIN timetable) :
        /\ timetable' = CrossoverWith(timetable, other, S, 1)
        /\ twin' = [twin EXCEPT !.timetable = CrossoverWith(twin.timetable, twin.other, S, 1)]
  /\ before' = timetable
  /\ arg_timetable' = timetable
  /\ op' = "crossover"
  /\ did_mutate' = FALSE
  /\ time_index' = 0
  /\ what_to_mutate' = "none"
  /\ UNCHANGED << genvars_but_timetable, other, result, heap >>

\* Both runs keep their current Schedule as the second parent.
TwinKeep ==
  /\ pc = "twin"
  /\ other' = timetable
  /\ twin' = [twin EXCEPT !.other = twin.timetable]
  /\ op' = "keep"
  /\ before' = << >>
  /\ arg_timetable' = << >>
  /\ did_mutate' = FALSE
  /\ time_index' = 0
  /\ what_to_mutate' = "none"
  /\ UNCHANGED << genvars, result, heap >>

TwinNext == TwinMutate \/ TwinCrossover \/ TwinKeep

TwinSpec == TwinInit /\ [][TwinNext]_vars

(* ------------------------------------------------------------------ *)
(* The reproduction loop on objects                                    *)
(* ------------------------------------------------------------------ *)

\* heap.pairs[p] is the Pair object p, heap.grids[g] the list object g (a
\* sequence of Pair references), heap.tts[t] the grid reference of the
\* TimeTable object t; heap.current_population and heap.new_population are
\* the two lists of TimeTable references of genetic().

\* The sequence of Assignments seen through TimeTable object t.
Deref(h, t) == [j \in DOMAIN h.grids[h.tts[t]] |-> h.pairs[h.grids[h.tts[t]][j]]]

\* Objects of a population given by value.  With `sharing`, the members hold
\* the same Pair object wherever an earlier member has an equal Pair at that
\* index (children of one parent); without, every member has its own Pairs
\* (Schedules returned by init_random_timetable).  Each member has its own list.
HeapOfPopulation(population, sharing) ==
  LET n == Len(population)
      L == Len(population[1])
      Owner(m, j) == IF sharing
                     THEN CHOOSE a \in 1 .. m :
                            /\ population[a][j] = population[m][j]
                            /\ \A b \in 1 .. a - 1 : population[b][j] # population[m][j]
                     ELSE m
  IN  [pairs |-> [x \in 1 .. n * L |-> population[((x - 1) \div L) + 1][((x - 1) % L) + 1]],
       grids |-> [m \in 1 .. n |-> [j \in 1 .. L |-> (Owner(m, j) - 1) * L + j]],
       tts   |-> [m \in 1 .. n |-> m],
       current_population |-> [m \in 1 .. n |-> m],
       new_population     |-> << >>]

\* self.crossover(other_parent) with the coin flips > 0.5 at the indices of S: a new
\* TimeTable whose grid is a new list, copy of self's list, in which the
\* entries of S are new Pair objects, copies of other's Pairs.
HeapCrossoverWith(h, self, other_parent, S) ==
  LET self_grid == h.grids[h.tts[self]]
      other_timecases == h.grids[h.tts[other_parent]]
      Rank(j) == Cardinality({ x \in S : x <= j })
      Taken(r) == CHOOSE j \in S : Rank(j) = r
      copies == [r \in 1 .. Cardinality(S) |-> h.pairs[other_timecases[Taken(r)]]]
      grid == [j \in DOMAIN self_grid |->
                 IF j \in S THEN Len(h.pairs) + Rank(j) ELSE self_grid[j]]
  IN  [heap |-> [h EXCEPT !.pairs = h.pairs \o copies,
                          !.grids = Append(h.grids, grid),
                          !.tts = Append(h.tts, Len(h.grids) + 1)],
       tt   |-> Len(h.tts) + 1]

\* The successful branch of mutate_timetable written without copy.copy of the
\* Pair: the attribute is assigned on the Pair object found in the grid.
HeapMutateWith_in_place(h, t, ix, what, v) ==
  LET time_case == h.grids[h.tts[t]][ix]
  IN  [heap |-> [h EXCEPT !.pairs[time_case] = NewTimeCase(h.pairs[time_case], what, v),
                          !.tts = Append(h.tts, h.tts[t])],
       tt   |-> Len(h.tts) + 1]

\* The successful branch of mutate_timetable(t) with the draws ix, what and
\* v: new_time_case is a new Pair object, new_timetable a new TimeTable that
\* refers to the grid list of t, and the list's entry ix is reassigned.
HeapMutateWith(h, t, ix, what, v) ==
  LET time_case == h.grids[h.tts[t]][ix]
      new_time_case == Len(h.pairs) + 1
  IN  [heap |-> [h EXCEPT !.pairs = Append(h.pairs, NewTimeCase(h.pairs[time_case], what, v)),
                          !.grids[h.tts[t]][ix] = new_time_case,
                          !.tts = Append(h.tts, h.tts[t])],
       tt   |-> Len(h.tts) + 1]

\* The TimeTable references tournament_selection can return.
HeapSelect(k, h) ==
  { t \in Range(h.current_population) :
      Deref(h, t) \in tournament_selection(
                        k, [m \in DOMAIN h.current_population |-> Deref(h, h.current_population[m])],
                        TournamentSize) }

\* What one pass of the reproduction loop can leave in `child`, with the
\* heap after the pass.
HeapChildren(k, h) ==
  UNION { UNION { LET c == HeapCrossoverWith(h, parent1, parent2, S)
                  IN  { [heap |-> c.heap, tt |-> c.tt, parent1 |-> parent1, parent2 |-> parent2,
                         mutated |-> FALSE] }
                      \cup
                      UNION { { [heap |-> m.heap, tt |-> m.tt, parent1 |-> parent1,
                                 parent2 |-> parent2, mutated |-> TRUE] :
                                m \in { HeapMutateWith(c.heap, c.tt, d[1], d[2], v) :
                                          v \in Range(Candidates(k, Deref(c.heap, c.tt), d[1], d[2])) } }
                            : d \in (DOMAIN Deref(c.heap, c.tt)) \X Bindings }
                : S \in SUBSET (DOMAIN h.grids[h.tts[parent1]]) }
        : <<parent1, parent2>> \in HeapSelect(k, h) \X HeapSelect(k, h) }

\* The objects of a dropped child are freed: the heap keeps the objects it
\* had before the pass, in the state the pass left them in.
HeapDrop(h, old) ==
  [h EXCEPT !.pairs = SubSeq(h.pairs, 1, Len(old.pairs)),
            !.grids = SubSeq(h.grids, 1, Len(old.grids)),
            !.tts = SubSeq(h.tts, 1, Len(old.tts))]

HeapRuns == { << "rooms", 2 >>, << "two", 2 >> }

HeapInit ==
  /\ \E r \in HeapRuns : inst = r[1] /\ population_size = r[2]
  /\ pc = "reproduce"
  /\ timetable = << >>
  /\ i = 0
  /\ depth = 0
  /\ current_population \in [1 .. population_size -> FullSchedules(inst)]
  /\ new_population = << >>
  /\ child = << >>
  /\ number_of_same_best_fitness = 0
  /\ curr_best_fitness = Zero
  /\ number_of_generations = 100
  /\ best_timetable = << >>
  /\ generations = 0
  /\ streak = 0
  /\ op = "none"
  /\ before = << >>
  /\ arg_timetable = << >>
  /\ other = << >>
  /\ time_index = 0
  /\ what_to_mutate = "none"
  /\ did_mutate = FALSE
  /\ result = << >>
  /\ twin = << >>
  /\ \E sharing \in BOOLEAN : heap = HeapOfPopulation(current_population, sharing)

\* One pass of `while len(new_population) < population_size` whose child is
\* valid; current_population keeps the values the loop started with.
HeapReproduceAccept ==
  /\ pc = "reproduce"
  /\ \E c \in HeapChildren(inst, heap) :
        /\ is_valid(Deref(c.heap, c.tt))
        /\ child' = Deref(c.heap, c.tt)
        /\ new_population' = Append(new_population, Deref(c.heap, c.tt))
        /\ heap' = [c.heap EXCEPT !.new_population = Append(@, c.tt)]
        /\ result' = [parent1 |-> c.parent1, parent2 |-> c.parent2, mutated |-> c.mutated]
  /\ pc' = IF Len(new_population) + 1 < population_size THEN "reproduce" ELSE "full"
  /\ op' = "accept"
  /\ UNCHANGED << inst, population_size, depth, timetable, i, current_population,
                  number_of_same_best_fitness, curr_best_fitness, number_of_generations,
                  best_timetable, generations, streak, before, arg_timetable, other,
                  time_index, what_to_mutate, did_mutate, twin >>

\* One pass whose child fails is_valid() and is dropped.
HeapReproduceReject ==
  /\ pc = "reproduce"
  /\ \E c \in HeapChildren(inst, heap) :
        /\ ~ is_valid(Deref(c.heap, c.tt))
        /\ child' = Deref(c.heap, c.tt)
        /\ heap' = HeapDrop(c.heap, heap)
        /\ result' = [parent1 |-> c.parent1, parent2 |-> c.parent2, mutated |-> c.mutated]
  /\ op' = "reject"
  /\ UNCHANGED << inst, population_size, depth, pc, timetable, i, current_population,
                  new_population, number_of_same_best_fitness, curr_best_fitness,
                  number_of_generations, best_timetable, generations, streak, before,
                  arg_timetable, other, time_index, what_to_mutate, did_mutate, twin >>

HeapNext == HeapReproduceAccept \/ HeapReproduceReject

HeapSpec == HeapInit /\ [][HeapNext]_vars

(* ------------------------------------------------------------------ *)
(* Properties                                                          *)
(* ------------------------------------------------------------------ *)

\* No two distinct Pairs with the same non-None time share a group, a
\* classroom or a lector.
NoDoubleBooking(grid) ==
  \A a, b \in DOMAIN grid :
     (a # b /\ grid[a].time # None /\ grid[a].time = grid[b].time) =>
        /\ grid[a].group # grid[b].group
        /\ (grid[a].classroom # None => grid[a].classroom # grid[b].classroom)
        /\ (grid[a].lector # None => grid[a].lector # grid[b].lector)

\* C1: whenever genetic() returns, the returned Schedule is valid: no two
\* distinct Assignments with the same Timeslot share a group, a classroom or
\* a lecturer, is_valid() is true and the three conflict maps are empty.
C1_ReturnedScheduleValid ==
  pc = "done" =>
     /\ NoDoubleBooking(best_timetable)
     /\ is_valid(best_timetable)
     /\ NoneTruthy(_find_time_conflicts_for_all_groups(best_timetable))
     /\ NoneTruthy(_find_time_conflicts_for_all_classrooms(best_timetable))
     /\ NoneTruthy(_find_time_conflicts_for_all_lectors(best_timetable))

\* genetic() has returned a Schedule of two Assignments for a population of two.
C1_Witness == pc = "done" /\ population_size = 2 /\ Len(best_timetable) = 2

\* C2: on an instance without any valid fully-bound Schedule (scenario B)
\* init_random_timetable restarts a bounded number of times and then reaches
\* a failure outcome surfaced to the caller.
C2_InfeasibleInitFails ==
  (inst = "B") => ( <>(pc = "RecursionError") /\ [](depth <= RecursionLimit) )

\* Scenario B has failed with RecursionError after the last restart the
\* recursion limit allows.
C2_Witness == inst = "B" /\ pc = "RecursionError" /\ depth = RecursionLimit

\* C3: the generation loop executes at most 100 times in every run.
C3_AtMost100Generations == generations <= 100

C5_StopAfterTenEqualGenerations == pc \in { "return", "done" } => streak >= SameBestLimit

\* C6: the maximum fitness of the population of generation n+1 is greater
\* than or equal to that of generation n.
C6_BestNeverDecreases ==
  [][ (pc = "generation" /\ current_population' # current_population) =>
        ~ FitGT(BestFitness(inst, current_population),
                BestFitness(inst, current_population')) ]_vars

\* C7: mutate_timetable never changes the Schedule it is given: after the
\* call the argument's sequence of Assignments is the one it had before.
C7_ArgumentUnchanged == op = "mutate" => arg_timetable = before

SamePairing(a, b) ==
  /\ Len(a) = Len(b)
  /\ \A j \in DOMAIN a : a[j].group = b[j].group /\ a[j].subject = b[j].subject

\* C8: for Schedules of the same length and (group, subject) pairing,
\* crossover and mutate_timetable return a Schedule of that length with the
\* same (group, subject) pairing at every index.
C8_PairingPreserved ==
  /\ op = "mutate" => SamePairing(timetable, before)
  /\ (op = "crossover" /\ SamePairing(before, other)) => SamePairing(timetable, before)

\* A crossover of two different Schedules took an entry from each parent.
C8_Witness ==
  /\ op = "crossover"
  /\ Len(timetable) = 2
  /\ timetable # before
  /\ timetable # other

\* C9: when did_mutate is true the returned Schedule equals the Schedule as
\* it was before the call at every index but the selected one, where exactly
\* the selected binding is replaced by a member of the Resolver's candidate
\* list that differs from the old value.
C9_ExactlyOneBindingReplaced ==
  (op = "mutate" /\ did_mutate) =>
     /\ Len(timetable) = Len(before)
     /\ \A j \in DOMAIN before : j # time_index => timetable[j] = before[j]
     /\ \A f \in { "group", "subject", "classroom", "lector", "time" } \ { what_to_mutate } :
           timetable[time_index][f] = before[time_index][f]
     /\ timetable[time_index][what_to_mutate] # before[time_index][what_to_mutate]
     /\ timetable[time_index][what_to_mutate]
           \in Range(Candidates(inst, before, time_index, what_to_mutate))

\* A successful mutation replaced a binding that was already set, in a
\* Schedule of two Assignments.
C9_Witness ==
  /\ op = "mutate"
  /\ did_mutate
  /\ Len(before) = 2
  /\ before[time_index][what_to_mutate] # None

PartiallyBound(grid) ==
  \E j \in DOMAIN grid : grid[j].classroom = None \/ grid[j].lector = None \/ grid[j].time = None

\* C10: when the Resolver has no legal candidate for the chosen binding, the
\* call returns the input Schedule unchanged with did_mutate = false.
C10_NoCandidateIsNoOp ==
  (op = "mutate" /\ Candidates(inst, before, time_index, what_to_mutate) = << >>) =>
     /\ ~ did_mutate
     /\ timetable = before
     /\ arg_timetable = before

\* A mutation of a partially bound Schedule found no candidate.
C10_Witness ==
  /\ op = "mutate"
  /\ ~ did_mutate
  /\ PartiallyBound(before)
  /\ Candidates(inst, before, time_index, what_to_mutate) = << >>

\* Every sequence over the domain of a whose entry at each index is the entry
\* of a or the entry of b at that index.
AllCombinations(a, b) ==
  { c \in [DOMAIN a -> Range(a) \cup Range(b)] : \A j \in DOMAIN a : c[j] \in { a[j], b[j] } }

\* C11: for parents of equal length crossover returns a new Schedule of that
\* length whose entry at every index is the entry of one of the parents, the
\* parent's object is left as it was, and each of the 2^n combinations of
\* choices is a possible result.
C11_CrossoverPerIndexChoice ==
  (op = "crossover" /\ Len(before) = Len(other)) =>
     /\ Len(timetable) = Len(before)
     /\ \A j \in DOMAIN before : timetable[j] \in { before[j], other[j] }
     /\ arg_timetable = before
     /\ crossover(before, other) = AllCombinations(before, other)

\* A crossover of two Schedules that differ at both indices took the first
\* entry from self and the second from other.
C11_Witness ==
  /\ op = "crossover"
  /\ Len(before) = 2
  /\ before[1] # other[1]
  /\ before[2] # other[2]
  /\ timetable[1] = before[1]
  /\ timetable[2] = other[2]

\* The number of Pairs of the grid that bind `key` as `field` at time t.
BoundAt(grid, field, key, t) ==
  Cardinality({ j \in DOMAIN grid : grid[j][field] = key /\ grid[j].time = t })

\* C12: is_valid() is true exactly when no two distinct Assignments with the
\* same non-null Timeslot share a group, a classroom or a lecturer; the
\* classroom conflict map lists T under C exactly when at least two
\* Assignments bind C at T; an Assignment without Timeslot adds no conflict.
C12_IsValidIffNoDoubleBooking ==
  op = "is_valid" =>
     /\ result.valid <=> NoDoubleBooking(timetable)
     /\ \A c \in DOMAIN Data(inst).classrooms : \A t \in DOMAIN Data(inst).times :
           (c \in DOMAIN result.classrooms /\ t \in Range(result.classrooms[c]))
             <=> BoundAt(timetable, "classroom", c, t) >= 2
     /\ \A f \in { "groups", "classrooms", "lectors" } :
           \A key \in DOMAIN result[f] : None \notin Range(result[f][key])

\* Scenario C: is_valid() was called on a Schedule whose two Assignments share
\* classroom and Timeslot, and on no other resource than those of the instance.
C12_Witness ==
  /\ op = "is_valid"
  /\ Len(timetable) = 2
  /\ timetable[1].classroom # None
  /\ timetable[1].classroom = timetable[2].classroom
  /\ timetable[1].time # None
  /\ timetable[1].time = timetable[2].time
  /\ ~ result.valid

\* The Schedules a state of genetic() holds.
SchedulesOfState ==
  { timetable, child, best_timetable } \cup Range(current_population) \cup Range(new_population)

\* Every Pair with a classroom sits in one that holds its group.
CapacityRespected(k, grid) ==
  \A j \in DOMAIN grid :
     grid[j].classroom # None =>
        Data(k).classrooms[grid[j].classroom].max_student_count
          >= Data(k).groups[grid[j].group].student_count

\* C13: in every Schedule built from the empty one by init_random_timetable,
\* mutate_timetable and crossover every bound classroom has a capacity of at
\* least the group's headcount, and the capacity-fill cost is >= 0.
C13_CapacityFillNonNegative ==
  \A grid \in SchedulesOfState :
     /\ CapacityRespected(inst, grid)
     /\ _get_group_capacity_classroom_capacity_fill_cost(inst, grid) >= 0

\* A child of the generation loop sits in a classroom larger than its group,
\* in the instance that also has a classroom too small for the group.
C13_Witness ==
  /\ inst = "rooms"
  /\ pc = "generation"
  /\ child # << >>
  /\ child[1].classroom = 2
  /\ _get_group_capacity_classroom_capacity_fill_cost(inst, child) > 0

\* C14: for every Schedule in a population of genetic() the total weighted
\* cost is >= 0, so 1 + cost is not 0 and the fitness lies in (0, 1].
C14_FitnessInUnitInterval ==
  \A grid \in Range(current_population) \cup Range(new_population) :
     /\ Cost(inst, grid) >= 0
     /\ get_timetable_fitness(inst, grid).den > 0
     /\ get_timetable_fitness(inst, grid).num <= get_timetable_fitness(inst, grid).den

FullyBound(grid) ==
  \A j \in DOMAIN grid :
     grid[j].classroom # None /\ grid[j].lector # None /\ grid[j].time # None

\* The Schedules init_random_timetable has returned and the reproduction loop
\* has not touched yet.
InitReturned ==
  IF pc = "init" \/ (pc = "generation" /\ generations = 0 /\ new_population = << >>)
  THEN Range(current_population)
  ELSE {}

\* C18: a Schedule returned by init_random_timetable is fully bound (every
\* Assignment has a classroom, a lecturer and a timeslot) and valid (no group,
\* classroom or lecturer booked twice at one Timeslot).
C18_InitReturnsFullyBoundValid ==
  \A grid \in InitReturned :
     /\ FullyBound(grid)
     /\ NoDoubleBooking(grid)
     /\ is_valid(grid)

\* init_random_timetable has returned two Schedules of two Assignments each.
C18_Witness ==
  /\ pc = "generation"
  /\ generations = 0
  /\ new_population = << >>
  /\ Len(current_population) = 2
  /\ \A grid \in Range(current_population) : Len(grid) = 2 /\ FullyBound(grid)

\* C19: a mutate_timetable call on a valid Schedule, the empty and the
\* partially bound ones included, leaves a valid Schedule (the returned one
\* and the argument it shares its Assignments with); so every Schedule reached
\* from the empty one by mutate_timetable calls is valid.
C19_MutationKeepsValidity ==
  (pc = "check" /\ op = "mutate" /\ NoDoubleBooking(before)) =>
     /\ NoDoubleBooking(timetable)
     /\ is_valid(timetable)
     /\ NoDoubleBooking(arg_timetable)

\* A successful mutation gave a new Timeslot to an Assignment of a valid
\* Schedule in which another Assignment holds a Timeslot.
C19_Witness ==
  /\ pc = "check"
  /\ op = "mutate"
  /\ did_mutate
  /\ what_to_mutate = "time"
  /\ NoDoubleBooking(before)
  /\ \E j \in DOMAIN before : j # time_index /\ before[j].time # None
  /\ timetable # before

\* C20: once initialization is over, and after each replacement of the old
\* population by the new one, current_population holds exactly population_size
\* Schedules, each valid and fully bound; the population under construction
\* holds at most population_size Schedules, each valid and fully bound, so a
\* child whose is_valid() is false is in no population.
C20_PopulationInvariant ==
  pc \in { "generation", "return", "done" } =>
     /\ Len(current_population) = population_size
     /\ Len(new_population) <= population_size
     /\ \A grid \in Range(current_population) \cup Range(new_population) :
           FullyBound(grid) /\ is_valid(grid) /\ NoDoubleBooking(grid)

\* A population of two Schedules has replaced the initial one, and the last
\* child built from it failed is_valid() and was dropped.
C20_Witness ==
  /\ pc = "generation"
  /\ generations >= 1
  /\ population_size = 2
  /\ Len(current_population) = 2
  /\ child # << >>
  /\ ~ is_valid(child)
  /\ child \notin Range(new_population)

\* A group's subject_names or a lecturer's can_teach holds a subject name that
\* the subjects list does not.
DanglingSubjectName(k) ==
  LET names == { Data(k).subjects[x].name : x \in DOMAIN Data(k).subjects }
  IN  \/ \E g \in DOMAIN Data(k).groups : ~ (Range(Data(k).groups[g].subject_names) \subseteq names)
      \/ \E l \in DOMAIN Data(k).lectors : ~ (Range(Data(k).lectors[l].can_teach) \subseteq names)

\* C16: on an input with a dangling subject name no optimization work is
\* done: no Schedule is mutated, none enters a population, no generation is
\* built and no Schedule is returned.
C16_DanglingNameFailsFast ==
  DanglingSubjectName(inst) =>
     /\ pc = "init"
     /\ i = 0
     /\ current_population = << >>
     /\ best_timetable = << >>

\* genetic() has returned the one fully bound valid Schedule of scenario A
\* (group G1, subject S1, lecturer L1, classroom C1, the one timeslot), of
\* total cost 1/6 and fitness 6/7.
ScenarioAReturned ==
  /\ pc = "done"
  /\ best_timetable = << [group |-> 1, subject |-> 1, lector |-> 1, classroom |-> 1,
                           time |-> 1] >>
  /\ 6 * Cost(inst, best_timetable) = 2 * CapLcm(inst)
  /\ 7 * get_timetable_fitness(inst, best_timetable).num
       = 6 * get_timetable_fitness(inst, best_timetable).den

\* C17: on scenario A genetic() does not end in an error, and what it
\* returns is the one fully bound valid Schedule, whose total cost is
\* 0.5 * (30 - 20) / 30 = 1/6 (window and earliness costs 0), fitness
\* 1 / (1 + 1/6).
C17_ScenarioAReturnsTheSchedule ==
  (inst = "A") =>
     /\ pc # "RecursionError"
     /\ (pc = "done" => ScenarioAReturned)

\* Lecturer l has the subject of Assignment p in can_teach.
Qualified(k, p) ==
  Data(k).subjects[p.subject].name \in Range(Data(k).lectors[p.lector].can_teach)

\* C21: in every Schedule a state of genetic() holds (under mutation in
\* init_random_timetable, filled, child of a crossover, mutated child, member
\* of a population, returned), an Assignment with a bound lecturer has a
\* lecturer whose can_teach holds the Assignment's subject name.
C21_LecturerQualified ==
  \A grid \in SchedulesOfState :
     \A j \in DOMAIN grid : grid[j].lector # None => Qualified(inst, grid[j])

\* A run on the instance with two lecturers of different qualification has
\* built a generation: its members have both lecturers bound.
C21_Witness ==
  /\ inst = "quals"
  /\ pc = "generation"
  /\ generations >= 1
  /\ \E grid \in Range(current_population) :
        /\ Len(grid) = 2
        /\ grid[1].lector # None /\ grid[2].lector # None
        /\ grid[1].lector # grid[2].lector

\* Position of a day in the week.
WeekDay(day) ==
  CASE day = "Monday" -> 1 [] day = "Tuesday" -> 2 [] day = "Wednesday" -> 3
    [] day = "Thursday" -> 4 [] day = "Friday" -> 5

\* The timeslot list of instance k is in chronological order (day of the
\* week, then period), so that the score of a Timeslot is its chronological rank.
Chronological(k) ==
  \A a, b \in DOMAIN Data(k).times :
     a < b => TupleLess(<< WeekDay(Data(k).times[a].day), Data(k).times[a].time >>,
                        << WeekDay(Data(k).times[b].day), Data(k).times[b].time >>)

\* C22: with chronological time scores, the group-window cost and the
\* lecturer-window cost of every fully bound Schedule are each >= 0.
C22_WindowCostsNonNegative ==
  \A grid \in SchedulesOfState :
     (Chronological(inst) /\ FullyBound(grid)) =>
        /\ _get_group_windows_cost(inst, grid) >= 0
        /\ _get_lector_windows_cost(inst, grid) >= 0

\* C23: for an Assignment with a Timeslot, the classroom Resolver returns
\* the classrooms whose capacity is at least the group's headcount, minus
\* those bound at that Timeslot by another Assignment, in ascending order of
\* name.
C23_ClassroomResolverExact ==
  (pc = "check" /\ op = "resolve" /\ timetable[time_index].time # None) =>
     result.classrooms =
        SortedSet({ h \in DOMAIN Data(inst).classrooms :
                       Data(inst).classrooms[h].max_student_count
                         >= Data(inst).groups[timetable[time_index].group].student_count }
                  \ { timetable[j].classroom :
                        j \in { x \in DOMAIN timetable :
                                  x # time_index /\ timetable[x].time = timetable[time_index].time } },
                  ClassroomKey(inst))

\* C24: the timeslot Resolver returns all Timeslots minus those at which
\* the given classroom, lecturer or group is bound by some Assignment; an
\* unset classroom or lecturer removes no Timeslot.
C24_TimeResolverExact ==
  (pc = "check" /\ op = "resolve") =>
     Range(result.times) =
        DOMAIN Data(inst).times
        \ { timetable[j].time :
              j \in { x \in DOMAIN timetable :
                        \/ timetable[x].group = timetable[time_index].group
                        \/ /\ timetable[time_index].classroom # None
                           /\ timetable[x].classroom = timetable[time_index].classroom
                        \/ /\ timetable[time_index].lector # None
                           /\ timetable[x].lector = timetable[time_index].lector } }

\* The lecturers legal for (Timeslot, Subject), the Timeslot set or not:
\* qualified for the subject and not bound by an Assignment of that Timeslot.
LegalLectors(k, grid, times, subject) ==
  SortedSet({ l \in DOMAIN Data(k).lectors :
                Data(k).subjects[subject].name \in Range(Data(k).lectors[l].can_teach) }
            \ { grid[j].lector : j \in { x \in DOMAIN grid : grid[x].time = times } },
            LectorKey(k))

LegalFillBinding(k, grid, j, what) ==
  IF grid[j][what] # None THEN { grid }
  ELSE { [grid EXCEPT ![j] = NewTimeCase(grid[j], what, v)] :
           v \in Range(IF what = "lector"
                       THEN LegalLectors(k, grid, grid[j].time, grid[j].subject)
                       ELSE Candidates(k, grid, j, what)) }

\* The outcomes of a fill in the order classroom, lecturer, timeslot that
\* restarts only at a binding without legal candidate.
RECURSIVE LegalFillFrom(_, _, _)
LegalFillFrom(k, grid, j) ==
  IF j > Len(grid) THEN { [restart |-> FALSE, grid |-> grid] }
  ELSE LET A == LegalFillBinding(k, grid, j, "classroom")
       IN  IF A = {} THEN { RestartOutcome }
           ELSE UNION { LET B == LegalFillBinding(k, a, j, "lector")
                        IN  IF B = {} THEN { RestartOutcome }
                            ELSE UNION { LET C == LegalFillBinding(k, b, j, "time")
                                         IN  IF C = {} THEN { RestartOutcome }
                                             ELSE UNION { LegalFillFrom(k, c, j + 1) : c \in C }
                                       : b \in B }
                      : a \in A }

\* C25: the fill phase of init_random_timetable restarts (or fails at the
\* recursion limit) only when, completing the Assignments in the order
\* classroom, lecturer, timeslot, some binding has no legal candidate; an
\* unset Timeslot alone does not force a restart.
C25_RestartOnlyWithoutCandidate ==
  [][ (pc = "init" /\ i = MutationAttempts /\ (depth' = depth + 1 \/ pc' = "RecursionError"))
        => RestartOutcome \in LegalFillFrom(inst, timetable, 1) ]_vars

\* C26: during the reproduction loop every member of the current population,
\* seen through its TimeTable object, is the sequence of Assignments it was
\* when the loop started, also after passes that took one Schedule as both
\* parents; and the Schedules already accepted are the children they were.
C26_ParentsUntouched ==
  pc \in { "reproduce", "full" } =>
     /\ \A m \in DOMAIN current_population :
           Deref(heap, heap.current_population[m]) = current_population[m]
     /\ \A m \in DOMAIN new_population :
           Deref(heap, heap.new_population[m]) = new_population[m]

\* The loop has filled a generation of two, the last child made from one
\* Schedule as both parents and mutated, in a population whose members share
\* a Pair object.
C26_Witness ==
  /\ pc = "full"
  /\ population_size = 2
  /\ result.parent1 = result.parent2
  /\ result.mutated
  /\ \E j \in DOMAIN heap.grids[1] : heap.grids[1][j] = heap.grids[2][j]

\* C27: the reproduction loop, running from a current population of
\* population_size valid Schedules with the next generation not yet full,
\* goes on producing children: it has not ended in an error.
C27_ReproductionLoopGoesOn ==
  ( /\ pc \notin { "init", "RecursionError", "return", "done" }
    /\ Len(current_population) = population_size
    /\ \A grid \in Range(current_population) : is_valid(grid)
    /\ Len(new_population) < population_size )
  => pc = "generation"

====
